---- MODULE Spec2Model ----
(***************************************************************************)
(* Check orchestration engine of backend/cleaning_engine.py:               *)
(* CleaningEngine.process_data fans the registered checks out to a         *)
(* ThreadPoolExecutor, collects one result per check and hands the result  *)
(* map to _generate_summary_report.                                        *)
(***************************************************************************)
EXTENDS Integers, Sequences, FiniteSets, TLC

\* ---------------------------------------------------------------- bounds
\* number of catalog entries the modelled engine registers (a prefix of CheckOrder)
NumChecks == 5
\* the clock (datetime.now()) runs from 1 to MaxClock
MaxClock == 2
\* how many process_data calls are made on the engine
MaxCalls == 2
\* the DataFrames handed to a single check function have up to MaxRows rows
MaxRows == 2

\* ------------------------------------------------------ program constants
\* ThreadPoolExecutor(max_workers=4)
MaxWorkers == 4
\* "if date_range.days > 365 * 10"
MaxDateRangeDays == 3650

\* ---------------------------------------------------------------- dataset
\* A cell is <<>> (NaN / None / NaT) or <<v>>.
IsNull(cell) == cell = <<>>

\* dtype of the modelled columns (numeric_col: int64/float64, date_col: datetime64)
ColumnDtype == [numeric_col |-> "number", completion_time |-> "number",
                date_col |-> "datetime64"]

\* the column layouts of the modelled DataFrames, in column order
ColumnLayouts == { <<>>, <<"numeric_col", "date_col">> }

\* values a non-null cell of a column may hold (dates are day numbers)
CellValues == [numeric_col |-> {1}, completion_time |-> {1, 2}, date_col |-> {2}]

Range(s) == { s[i] : i \in DOMAIN s }

CellsOf(col) == { <<>> } \cup { <<v>> : v \in CellValues[col] }

RowsOver(cols) == { r \in [Range(cols) -> UNION { CellsOf(c) : c \in Range(cols) }] :
                      \A c \in Range(cols) : r[c] \in CellsOf(c) }

\* the DataFrames process_data is given: no row or one row over one of the layouts
\* (a DataFrame without columns has no rows)
DataFrames == UNION { { [columns |-> cols, rows |-> rs] :
                          rs \in { <<>> } \cup
                                 (IF cols = <<>> THEN {} ELSE { <<r>> : r \in RowsOver(cols) }) } :
                      cols \in ColumnLayouts }

\* the column layouts of the DataFrames the tests hand to a single check function:
\* no, one and two numeric columns, and a numeric column beside a date column
RowLayouts == { <<>>, <<"numeric_col">>, <<"numeric_col", "completion_time">>,
                <<"numeric_col", "date_col">> }

\* those DataFrames: up to MaxRows rows over one of the layouts, any two of which
\* may be equal; the index is the RangeIndex of a freshly built DataFrame
RowFrames == UNION { { [columns |-> cols, rows |-> rs] :
                         rs \in IF cols = <<>> THEN { <<>> }
                                ELSE UNION { [1..k -> RowsOver(cols)] : k \in 0..MaxRows } } :
                     cols \in RowLayouts }

\* arguments of process_data that are no DataFrame: None and a plain string
Unusable == { [columns |-> <<>>, rows |-> <<>>, type |-> "NoneType"],
              [columns |-> <<>>, rows |-> <<>>, type |-> "str"] }

IsDataFrame(data) == "type" \notin DOMAIN data

\* str(e) of the AttributeError an attribute access on such an argument raises
AttributeError(data, attr) ==
    "'" \o data.type \o "' object has no attribute '" \o attr \o "'"

\* data.select_dtypes(include=[dtype]).columns
SelectDtypes(data, dtype) == SelectSeq(data.columns, LAMBDA c : ColumnDtype[c] = dtype)

\* data[col].isnull().sum()
NullCount(data, col) == Cardinality({ i \in DOMAIN data.rows : IsNull(data.rows[i][col]) })

\* a float: NaN, or the quotient num / den
Float(num, den) == IF den = 0 THEN [nan |-> TRUE, num |-> 0, den |-> 1]
                   ELSE [nan |-> FALSE, num |-> num, den |-> den]

SetMax(S) == CHOOSE m \in S : \A x \in S : x <= m
SetMin(S) == CHOOSE m \in S : \A x \in S : m <= x

\* the positional labels (RangeIndex, from 0) of the rows in I, ascending
RECURSIVE IndexList(_)
IndexList(I) == IF I = {} THEN <<>>
                ELSE LET m == SetMin(I) IN <<m - 1>> \o IndexList(I \ {m})

\* data.index: the labels of the rows, a RangeIndex unless rows were appended
\* with their labels
IndexOf(data) == IF "index" \in DOMAIN data THEN data.index
                 ELSE [i \in DOMAIN data.rows |-> i - 1]

\* series[mask].index.tolist(): the labels of the rows at the positions in I,
\* in row order
RECURSIVE IndexLabels(_, _)
IndexLabels(data, I) ==
    IF I = {} THEN <<>>
    ELSE LET m == SetMin(I) IN <<IndexOf(data)[m]>> \o IndexLabels(data, I \ {m})

\* ----------------------------------------------------------- configuration
\* An entry of the configuration dict: the key is absent, holds None, or holds a value.
Absent == [state |-> "absent", value |-> <<>>]
None == [state |-> "none", value |-> <<>>]
Value(v) == [state |-> "set", value |-> v]

\* the rule of the tests' fixture; its condition is a lambda over the DataFrame
LambdaRule == [name |-> "numeric_range", fields |-> <<"numeric_col">>,
               condition |-> [kind |-> "function", pred |-> "numeric_range"]]
\* the same rule with the condition already evaluated to a boolean Series
SeriesRule == [name |-> "numeric_range", fields |-> <<"numeric_col">>,
               condition |-> [kind |-> "series", pred |-> "numeric_range"]]

\* an item of a dict-valued configuration entry
Item(key, value) == [key |-> key, value |-> value]

\* CleaningEngine() and CleaningEngine(None): self.config = config or {}
DefaultConfig == [required_fields |-> Absent, expected_types |-> Absent,
                  consistency_rules |-> Absent, logical_rules |-> Absent,
                  validation_rules |-> Absent, format_rules |-> Absent,
                  section_fields |-> Absent]
\* the configuration of the tests' cleaning_engine fixture
FixtureConfig == [required_fields |-> Value(<<"numeric_col", "categorical_col">>),
                  expected_types |-> Value(<< Item("numeric_col", "int64"),
                                              Item("categorical_col", "object") >>),
                  consistency_rules |-> Value(<<LambdaRule>>),
                  logical_rules |-> Absent,
                  validation_rules |-> Absent,
                  format_rules |-> Value(<< Item("text_col", "^[A-Za-z\\s]+$") >>),
                  section_fields |-> Value(<< Item("demographics",
                                                   <<"numeric_col", "categorical_col">>) >>)]
\* a configuration whose rule conditions are boolean Series
SeriesConfig == [required_fields |-> Value(<<"numeric_col">>),
                 expected_types |-> Value(<< Item("numeric_col", "int64") >>),
                 consistency_rules |-> Value(<<SeriesRule>>),
                 logical_rules |-> Value(<<SeriesRule>>),
                 validation_rules |-> Value(<<SeriesRule>>),
                 format_rules |-> Value(<< Item("numeric_col", "^[0-9]+$") >>),
                 section_fields |-> Value(<< Item("demographics", <<"numeric_col">>) >>)]
\* CleaningConfig().dict(): every optional field is present and None
NullConfig == [required_fields |-> None, expected_types |-> None,
               consistency_rules |-> None, logical_rules |-> Absent,
               validation_rules |-> Absent, format_rules |-> None,
               section_fields |-> None]

\* rules that lack one of the entries name, fields and condition
MalformedRules == { [name |-> "numeric_range",
                     condition |-> [kind |-> "series", pred |-> "numeric_range"]],
                    [name |-> "numeric_range", fields |-> <<"numeric_col">>],
                    [fields |-> <<"numeric_col">>,
                     condition |-> [kind |-> "series", pred |-> "numeric_range"]] }

\* configurations whose consistency_rules hold one such rule
MalformedConfigs == { [DefaultConfig EXCEPT !.consistency_rules = Value(<<r>>)] :
                        r \in MalformedRules }

Configs == { DefaultConfig, FixtureConfig, SeriesConfig, NullConfig }

\* the checks whose function a caller swaps for failing_check: the two that no
\* modelled DataFrame or configuration makes raise
Replaceable == { "missing_values", "date_anomalies" }

\* (df['numeric_col'] >= 0) & (df['numeric_col'] <= 100), row by row; NaN compares False
RulePredicate(pred, row) ==
    /\ pred = "numeric_range"
    /\ ~IsNull(row["numeric_col"])
    /\ row["numeric_col"][1] >= 0
    /\ row["numeric_col"][1] <= 100

\* --------------------------------------------------------- check functions
\* What a check function does: it returns {issues, summary} or raises.
Returns(issues, summary) == [raised |-> FALSE, error |-> "", issues |-> issues, summary |-> summary]
Raises(message) == [raised |-> TRUE, error |-> message, issues |-> <<>>, summary |-> <<>>]

\* the test_error_handling replacement: raise ValueError("Test error")
failing_check(data) == Raises("Test error")

_check_missing_values(data) ==
    LET n == Len(data.rows)
        issue(col) == [column |-> col,
                       missing_count |-> NullCount(data, col),
                       missing_percentage |-> Float(NullCount(data, col) * 100, n)]
        flagged == SelectSeq(data.columns, LAMBDA c : NullCount(data, c) > 0)
        issues == [i \in DOMAIN flagged |-> issue(flagged[i])]
        maxpct == IF data.columns = <<>> \/ n = 0 THEN Float(0, 0)
                  ELSE Float(SetMax({ NullCount(data, c) : c \in Range(data.columns) }) * 100, n)
    IN  IF ~IsDataFrame(data) THEN Raises(AttributeError(data, "isnull"))
        ELSE Returns(issues, [total_columns_with_missing |-> Len(issues),
                              max_missing_percentage |-> maxpct])

\* data.duplicated(): the rows equal to an earlier row (keep='first'; two nulls
\* in the same column count as equal)
Duplicated(data) ==
    { i \in DOMAIN data.rows : \E j \in 1..(i - 1) : data.rows[j] = data.rows[i] }

\* a duplicate check that marks every occurrence: data.duplicated(keep=False)
_check_duplicates_KeepFalse(data) ==
    LET all == { i \in DOMAIN data.rows :
                   \E j \in DOMAIN data.rows : j # i /\ data.rows[j] = data.rows[i] }
        issues == IF all # {}
                  THEN << [duplicate_count |-> Cardinality(all),
                           duplicate_indices |-> IndexLabels(data, all)] >>
                  ELSE <<>>
    IN  IF ~IsDataFrame(data) THEN Raises(AttributeError(data, "duplicated"))
        ELSE Returns(issues, [total_duplicates |-> Cardinality(all)])

_check_duplicates(data) ==
    LET duplicate_count == Cardinality(Duplicated(data))
        issues == IF duplicate_count > 0
                  THEN << [duplicate_count |-> duplicate_count,
                           duplicate_indices |-> IndexLabels(data, Duplicated(data))] >>
                  ELSE <<>>
    IN  IF ~IsDataFrame(data) THEN Raises(AttributeError(data, "duplicated"))
        ELSE Returns(issues, [total_duplicates |-> duplicate_count])

\* the issues one datetime column adds, at clock value now
DateIssues(data, col, now) ==
    LET present == { i \in DOMAIN data.rows : ~IsNull(data.rows[i][col]) }
        future == { i \in present : data.rows[i][col][1] > now }
        days == { data.rows[i][col][1] : i \in present }
        futureIssue == IF future # {}
                       THEN << [column |-> col, issue_type |-> "future_dates",
                                count |-> Cardinality(future), indices |-> IndexList(future)] >>
                       ELSE <<>>
        rangeIssue == IF days # {} /\ SetMax(days) - SetMin(days) > MaxDateRangeDays
                      THEN << [column |-> col, issue_type |-> "large_date_range",
                               range_days |-> SetMax(days) - SetMin(days)] >>
                      ELSE <<>>
    IN  futureIssue \o rangeIssue

RECURSIVE DateIssuesOver(_, _, _)
DateIssuesOver(data, cols, now) ==
    IF cols = <<>> THEN <<>>
    ELSE DateIssues(data, Head(cols), now) \o DateIssuesOver(data, Tail(cols), now)

\* a date check whose future-dates branch raises (a misspelt name in that branch)
_check_date_anomalies_BranchError(data, now) ==
    LET issues == DateIssuesOver(data, SelectDtypes(data, "datetime64"), now)
    IN  IF \E i \in DOMAIN issues : issues[i].issue_type = "future_dates"
        THEN Raises("name 'future_date' is not defined")
        ELSE Returns(issues, [columns_with_anomalies |-> Len(issues)])

_check_date_anomalies(data, now) ==
    LET issues == DateIssuesOver(data, SelectDtypes(data, "datetime64"), now)
    IN  IF ~IsDataFrame(data) THEN Raises(AttributeError(data, "select_dtypes"))
        ELSE Returns(issues, [columns_with_anomalies |-> Len(issues)])

\* a completeness check that reports the share of missing values as the
\* completeness percentage
_check_completeness_MissingShare(data, config) ==
    LET entry == config.required_fields
        n == Len(data.rows)
        flagged == SelectSeq(entry.value,
                             LAMBDA f : f \in Range(data.columns) /\ NullCount(data, f) > 0)
        issues == [i \in DOMAIN flagged |->
                     [field |-> flagged[i],
                      missing_count |-> NullCount(data, flagged[i]),
                      completeness_percentage |-> Float(NullCount(data, flagged[i]) * 100, n)]]
    IN  IF entry.state = "none" THEN Raises("'NoneType' object is not iterable")
        ELSE IF ~IsDataFrame(data) /\ entry.value # <<>>
             THEN Raises(AttributeError(data, "columns"))
        ELSE Returns(issues, [incomplete_required_fields |-> Len(issues)])

_check_completeness(data, config) ==
    LET entry == config.required_fields
        n == Len(data.rows)
        flagged == SelectSeq(entry.value,
                             LAMBDA f : f \in Range(data.columns) /\ NullCount(data, f) > 0)
        issues == [i \in DOMAIN flagged |->
                     [field |-> flagged[i],
                      missing_count |-> NullCount(data, flagged[i]),
                      completeness_percentage |->
                          Float((n - NullCount(data, flagged[i])) * 100, n)]]
    IN  IF entry.state = "none" THEN Raises("'NoneType' object is not iterable")
        ELSE IF ~IsDataFrame(data) /\ entry.value # <<>>
             THEN Raises(AttributeError(data, "columns"))
        ELSE Returns(issues, [incomplete_required_fields |-> Len(issues)])

\* the rows whose values in the numeric columns are all the same:
\* len(row[numeric_cols].unique()) == 1, where two NaN count as one value
Straight(data, numeric_cols) ==
    { i \in DOMAIN data.rows :
        Cardinality({ data.rows[i][c] : c \in Range(numeric_cols) }) = 1 }

\* the issue of a flagged row; float(values.iloc[0]) of a null is NaN
StraightIssue(data, numeric_cols, i) ==
    [row_index |-> i - 1,
     value |-> IF IsNull(data.rows[i][numeric_cols[1]]) THEN Float(0, 0)
               ELSE Float(data.rows[i][numeric_cols[1]][1], 1)]

\* the positions in I, ascending
RECURSIVE Ascending(_)
Ascending(I) == IF I = {} THEN <<>>
                ELSE LET m == SetMin(I) IN <<m>> \o Ascending(I \ {m})

\* a straightliner check without the test on the number of numeric columns
_check_straightliners_AnyCount(data) ==
    LET numeric_cols == SelectDtypes(data, "number")
        flagged == Ascending(IF Len(numeric_cols) > 0 THEN Straight(data, numeric_cols) ELSE {})
        issues == [k \in DOMAIN flagged |-> StraightIssue(data, numeric_cols, flagged[k])]
    IN  IF ~IsDataFrame(data) THEN Raises(AttributeError(data, "select_dtypes"))
        ELSE Returns(issues, [straightliner_count |-> Len(issues)])

_check_straightliners(data) ==
    LET numeric_cols == SelectDtypes(data, "number")
        flagged == Ascending(IF Len(numeric_cols) > 1 THEN Straight(data, numeric_cols) ELSE {})
        issues == [k \in DOMAIN flagged |-> StraightIssue(data, numeric_cols, flagged[k])]
    IN  IF ~IsDataFrame(data) THEN Raises(AttributeError(data, "select_dtypes"))
        ELSE Returns(issues, [straightliner_count |-> Len(issues)])

\* data[~condition].index.tolist() for a boolean Series condition
Violations(data, rule) ==
    IndexList({ i \in DOMAIN data.rows : ~RulePredicate(rule.condition.pred, data.rows[i]) })

\* one round of "for rule in rules": the issues the rule adds, or the exception
\* raised on the way (a missing key of the rule dict is a KeyError)
RuleStep(data, rule) ==
    IF "fields" \notin DOMAIN rule THEN Raises("'fields'")
    ELSE IF ~IsDataFrame(data) /\ rule.fields # <<>>
         THEN Raises(AttributeError(data, "columns"))
    ELSE IF \E f \in Range(rule.fields) : f \notin Range(data.columns)
         THEN Returns(<<>>, <<>>)
    ELSE IF "condition" \notin DOMAIN rule THEN Raises("'condition'")
    ELSE IF rule.condition.kind = "function"
         THEN Raises("bad operand type for unary ~: 'function'")
    ELSE IF ~IsDataFrame(data)
         THEN Raises("'" \o data.type \o "' object is not subscriptable")
    ELSE IF Violations(data, rule) = <<>> THEN Returns(<<>>, <<>>)
    ELSE IF "name" \notin DOMAIN rule THEN Raises("'name'")
    ELSE Returns(<< [rule |-> rule.name,
                     violation_count |-> Len(Violations(data, rule)),
                     violation_indices |-> Violations(data, rule)] >>, <<>>)

\* the rounds over the rules in order, up to the first one that raises
RECURSIVE RuleSteps(_, _)
RuleSteps(data, rules) ==
    IF rules = <<>> THEN Returns(<<>>, <<>>)
    ELSE LET first == RuleStep(data, Head(rules))
             rest == RuleSteps(data, Tail(rules))
         IN  IF first.raised THEN first
             ELSE IF rest.raised THEN rest
             ELSE Returns(first.issues \o rest.issues, <<>>)

\* rule checks that subscript the configuration, self.config[key], instead of
\* calling self.config.get(key, [])
RuleCheck_Subscript(data, entry, summaryKey) ==
    IF entry.state = "absent" THEN Raises("'" \o summaryKey \o "'")
    ELSE IF entry.state = "none" THEN Raises("'NoneType' object is not iterable")
    ELSE LET rounds == RuleSteps(data, entry.value)
         IN  IF rounds.raised THEN rounds
             ELSE Returns(rounds.issues, (summaryKey :> Len(rounds.issues)))

\* the algorithm _check_consistency, _check_logical_consistency and
\* _check_cross_validation share; entry is the configuration entry they read
RuleCheck(data, entry, summaryKey) ==
    IF entry.state = "none" THEN Raises("'NoneType' object is not iterable")
    ELSE LET rounds == RuleSteps(data, entry.value)
         IN  IF rounds.raised THEN rounds
             ELSE Returns(rounds.issues, (summaryKey :> Len(rounds.issues)))

_check_consistency(data, config) ==
    RuleCheck(data, config.consistency_rules, "consistency_violations")

_check_cross_validation(data, config) ==
    RuleCheck(data, config.validation_rules, "validation_violations")

_check_logical_consistency(data, config) ==
    RuleCheck(data, config.logical_rules, "logical_violations")

\* str(data[col].dtype): an integer column that holds a NaN is a float64 column
DtypeName(data, col) ==
    IF ColumnDtype[col] = "datetime64" THEN "datetime64[ns]"
    ELSE IF NullCount(data, col) > 0 THEN "float64"
    ELSE "int64"

_check_data_type(data, config) ==
    LET entry == config.expected_types
        flagged == SelectSeq(entry.value,
                             LAMBDA e : e.key \in Range(data.columns)
                                        /\ DtypeName(data, e.key) # e.value)
        issues == [i \in DOMAIN flagged |->
                     [column |-> flagged[i].key,
                      current_type |-> DtypeName(data, flagged[i].key),
                      expected_type |-> flagged[i].value]]
    IN  IF entry.state = "none" THEN Raises("'NoneType' object has no attribute 'items'")
        ELSE IF ~IsDataFrame(data) /\ entry.value # <<>>
             THEN Raises(AttributeError(data, "columns"))
        ELSE Returns(issues, [type_mismatches |-> Len(issues)])

\* data[col].str.match(pattern): the modelled columns hold numbers and dates, and
\* the .str accessor of a column that holds no strings raises
_check_format_consistency(data, config) ==
    LET entry == config.format_rules
    IN  IF entry.state = "none" THEN Raises("'NoneType' object has no attribute 'items'")
        ELSE IF ~IsDataFrame(data) /\ entry.value # <<>>
             THEN Raises(AttributeError(data, "columns"))
        ELSE IF \E i \in DOMAIN entry.value : entry.value[i].key \in Range(data.columns)
             THEN Raises("Can only use .str accessor with string values!")
        ELSE Returns(<<>>, [format_violations |-> 0])

\* the rows of a section with a null in one of the section's fields
IncompleteRows(data, fields) ==
    IndexList({ i \in DOMAIN data.rows : \E f \in Range(fields) : IsNull(data.rows[i][f]) })

_check_completeness_by_section(data, config) ==
    LET entry == config.section_fields
        present == SelectSeq(entry.value,
                             LAMBDA e : \A f \in Range(e.value) : f \in Range(data.columns))
        flagged == SelectSeq(present, LAMBDA e : IncompleteRows(data, e.value) # <<>>)
        issues == [i \in DOMAIN flagged |->
                     [section |-> flagged[i].key,
                      incomplete_count |-> Len(IncompleteRows(data, flagged[i].value)),
                      indices |-> IncompleteRows(data, flagged[i].value)]]
    IN  IF entry.state = "none" THEN Raises("'NoneType' object has no attribute 'items'")
        ELSE IF ~IsDataFrame(data) /\ entry.value # <<>>
             THEN IF entry.value[1].value # <<>>
                  THEN Raises(AttributeError(data, "columns"))
                  ELSE Raises("'" \o data.type \o "' object is not subscriptable")
        ELSE Returns(issues, [incomplete_sections |-> Len(issues)])

_check_value_distribution(data) ==
    IF ~IsDataFrame(data) THEN Raises(AttributeError(data, "select_dtypes"))
    ELSE IF SelectDtypes(data, "number") # <<>>
    THEN Raises("name 'std' is not defined")
    ELSE Returns(<<>>, [columns_with_distribution_issues |-> 0])

\* ---------------------------------------------------------------- registry
\* the catalog entries the modelled engine registers, in catalog order
CheckOrder == << "missing_values", "date_anomalies", "completeness", "consistency",
                 "value_distribution", "cross_validation" >>

Registered == { CheckOrder[i] : i \in 1..NumChecks }

\* the descriptors of _initialize_checks; only missing_values declares a severity
Catalog ==
    [missing_values |-> [function |-> "_check_missing_values", category |-> "data_quality",
                         description |-> "Detect and analyze missing values in the dataset",
                         severity |-> "high"],
     duplicates |-> [function |-> "_check_duplicates", category |-> "data_quality",
                     description |-> "Identify duplicate records"],
     date_anomalies |-> [function |-> "_check_date_anomalies", category |-> "data_quality",
                         description |-> "Detect anomalies in date fields"],
     completeness |-> [function |-> "_check_completeness", category |-> "data_quality",
                       description |-> "Check data completeness by required fields"],
     consistency |-> [function |-> "_check_consistency", category |-> "validation",
                      description |-> "Check data consistency across related fields"],
     value_distribution |-> [function |-> "_check_value_distribution", category |-> "data_quality",
                             description |-> "Analyze value distributions for anomalies"],
     cross_validation |-> [function |-> "_check_cross_validation", category |-> "validation",
                           description |-> "Cross-validate related fields"],
     straightliners |-> [function |-> "_check_straightliners", category |-> "validation",
                         description |-> "Detect straight-line response patterns"],
     logical_consistency |-> [function |-> "_check_logical_consistency",
                              category |-> "validation",
                              description |->
                                  "Check logical consistency between related questions"],
     data_type |-> [function |-> "_check_data_type", category |-> "data_quality",
                    description |-> "Verify correct data types for each column"],
     format_consistency |-> [function |-> "_check_format_consistency",
                             category |-> "data_quality",
                             description |-> "Check format consistency in text fields"],
     completeness_by_section |-> [function |-> "_check_completeness_by_section",
                                  category |-> "data_quality",
                                  description |-> "Check completeness by survey sections"]]

\* the checks that read the engine configuration, and the key each one reads
ConfigKey == [completeness |-> "required_fields", data_type |-> "expected_types",
              consistency |-> "consistency_rules", logical_consistency |-> "logical_rules",
              cross_validation |-> "validation_rules", format_consistency |-> "format_rules",
              completeness_by_section |-> "section_fields"]

_initialize_checks == [c \in Registered |-> Catalog[c]]

\* the CheckSeverity values
CheckSeverity == { "low", "medium", "high", "critical" }

\* check_info['function'](data), evaluated with the engine's config at clock value now
CallFunction(fn, data, config, now) ==
    CASE fn = "_check_missing_values" -> _check_missing_values(data)
      [] fn = "_check_duplicates" -> _check_duplicates(data)
      [] fn = "_check_date_anomalies" -> _check_date_anomalies(data, now)
      [] fn = "_check_completeness" -> _check_completeness(data, config)
      [] fn = "_check_consistency" -> _check_consistency(data, config)
      [] fn = "_check_value_distribution" -> _check_value_distribution(data)
      [] fn = "_check_cross_validation" -> _check_cross_validation(data, config)
      [] fn = "_check_straightliners" -> _check_straightliners(data)
      [] fn = "_check_logical_consistency" -> _check_logical_consistency(data, config)
      [] fn = "_check_data_type" -> _check_data_type(data, config)
      [] fn = "_check_format_consistency" -> _check_format_consistency(data, config)
      [] fn = "_check_completeness_by_section" -> _check_completeness_by_section(data, config)
      [] fn = "failing_check" -> failing_check(data)

\* check_info.get('severity', CheckSeverity.MEDIUM)
SeverityOf(check_info) ==
    IF "severity" \in DOMAIN check_info THEN check_info.severity ELSE "medium"

\* ------------------------------------------------------------ check runner
\* the CheckResult dataclass instance _run_check builds from a returned raw result
CheckResult(check_name, check_info, raw, execution_time) ==
    [type |-> "CheckResult",
     fields |-> [check_name |-> check_name,
                 status |-> "completed",
                 issues_found |-> Len(raw.issues),
                 severity |-> SeverityOf(check_info),
                 details |-> [issues |-> raw.issues, summary |-> raw.summary],
                 execution_time |-> execution_time]]

\* a runner that swallows the exception of the check function and reports the
\* check completed without issues
_run_check_Swallow(check_name, check_info, raw, execution_time) ==
    [state |-> "finished", exception |-> <<>>,
     result |-> << CheckResult(check_name, check_info,
                               IF raw.raised THEN Returns(<<>>, <<>>) ELSE raw,
                               execution_time) >>]

\* how the future of _run_check ends: with the CheckResult, or with the
\* exception of the check function, which _run_check logs and re-raises
_run_check(check_name, check_info, raw, execution_time) ==
    IF raw.raised
    THEN [state |-> "finished", exception |-> <<raw.error>>, result |-> <<>>]
    ELSE [state |-> "finished", exception |-> <<>>,
          result |-> <<CheckResult(check_name, check_info, raw, execution_time)>>]

\* what _run_check leaves in self.check_times: an entry only when the function returned
RecordTime(times, check_name, raw, execution_time) ==
    IF raw.raised THEN times
    ELSE [c \in DOMAIN times \cup {check_name} |->
            IF c = check_name THEN execution_time ELSE times[c]]

\* a runner that calls the function a second time when the first call raised
Attempts_Retry(raw) == IF raw.raised THEN 2 ELSE 1

\* how many times _run_check calls the check function: once, whatever it does
Attempts(raw) == 1

\* ------------------------------------------------------------ orchestrator
\* an executor that starts one thread for every submitted work item
AdjustThreadCount_PerTask(n) == n + 1

\* worker threads the executor has after one more submit
AdjustThreadCount(n) == IF n < MaxWorkers THEN n + 1 ELSE n

\* a loop that does not wait for the future
ResultReady_NoWait(future) == TRUE

\* future.result() blocks until the future has finished
ResultReady(future) == future.state = "finished"

\* str(e) of the exception future.result() raises
ErrorOf(future) == IF future.exception # <<>> THEN future.exception[1] ELSE ""

\* a loop body that reports every check after the first failed one as failed too
CollectInto_FailFast(results, check_name, future) ==
    LET entry == IF future.result # <<>>
                    /\ \A c \in DOMAIN results : results[c].fields.status # "failed"
                 THEN future.result[1]
                 ELSE [type |-> "dict",
                       fields |-> [status |-> "failed", error |-> ErrorOf(future),
                                   issues_found |-> 0, severity |-> "critical"]]
    IN  [c \in DOMAIN results \cup {check_name} |->
           IF c = check_name THEN entry ELSE results[c]]

\* a loop body that gives a failed entry the fields of a CheckResult
CollectInto_Uniform(results, check_name, future) ==
    LET entry == IF future.result # <<>>
                 THEN future.result[1]
                 ELSE [type |-> "dict",
                       fields |-> [status |-> "failed", issues_found |-> 0,
                                   severity |-> "critical",
                                   details |-> [error |-> ErrorOf(future)],
                                   execution_time |-> 0]]
    IN  [c \in DOMAIN results \cup {check_name} |->
           IF c = check_name THEN entry ELSE results[c]]

\* the body of the collecting loop: results after future.result() has returned
\* the CheckResult or raised the exception of the check
CollectInto(results, check_name, future) ==
    LET entry == IF future.result # <<>>
                 THEN future.result[1]
                 ELSE [type |-> "dict",
                       fields |-> [status |-> "failed", error |-> ErrorOf(future),
                                   issues_found |-> 0, severity |-> "critical"]]
    IN  [c \in DOMAIN results \cup {check_name} |->
           IF c = check_name THEN entry ELSE results[c]]

\* the collecting loop goes on until it has passed every future
LoopExit(passed, future) == IF passed = NumChecks THEN "report" ELSE "collect"

\* ------------------------------------------------------- report aggregator
RECURSIVE SumOver(_, _)
SumOver(f, S) == IF S = {} THEN 0
                 ELSE LET x == CHOOSE y \in S : TRUE IN f[x] + SumOver(f, S \ {x})

\* result.get(key, default) on a dict entry
Get(result, key, default) ==
    IF key \in DOMAIN result.fields THEN result.fields[key] ELSE default

\* an aggregator that looks for the status 'error' when it counts the failed checks
_generate_summary_report_StatusError(results, times, total_time) ==
    IF \E c \in DOMAIN results : results[c].type # "dict"
    THEN [kind |-> "raised", error |-> "'CheckResult' object has no attribute 'get'",
          report |-> <<>>]
    ELSE LET ids == DOMAIN results
             total_issues == SumOver([c \in ids |-> Get(results[c], "issues_found", 0)], ids)
             failed_checks == Cardinality({ c \in ids : Get(results[c], "status", "") = "error" })
             severity_counts ==
                 [s \in CheckSeverity |->
                    Cardinality({ c \in ids : Get(results[c], "severity", "") = s })]
         IN  [kind |-> "report", error |-> "",
              report |-> << [summary |-> [total_checks |-> Cardinality(ids),
                                          total_issues_found |-> total_issues,
                                          failed_checks |-> failed_checks,
                                          severity_distribution |-> severity_counts,
                                          execution_time |-> total_time,
                                          check_performance |-> times],
                             detailed_results |-> results] >>]

\* the report, or the AttributeError of calling .get on a CheckResult instance
_generate_summary_report(results, times, total_time) ==
    IF \E c \in DOMAIN results : results[c].type # "dict"
    THEN [kind |-> "raised", error |-> "'CheckResult' object has no attribute 'get'",
          report |-> <<>>]
    ELSE LET ids == DOMAIN results
             total_issues == SumOver([c \in ids |-> Get(results[c], "issues_found", 0)], ids)
             failed_checks == Cardinality({ c \in ids : Get(results[c], "status", "") = "failed" })
             severity_counts ==
                 [s \in CheckSeverity |->
                    Cardinality({ c \in ids : Get(results[c], "severity", "") = s })]
         IN  [kind |-> "report", error |-> "",
              report |-> << [summary |-> [total_checks |-> Cardinality(ids),
                                          total_issues_found |-> total_issues,
                                          failed_checks |-> failed_checks,
                                          severity_distribution |-> severity_counts,
                                          execution_time |-> total_time,
                                          check_performance |-> times],
                             detailed_results |-> results] >>]

\* a Report as the caller who holds it reads it: 'check_performance' is
\* self.check_times, the engine's own dict and no copy of it, while every other
\* entry is a value or a dict built for the call
Held(report, times) == [report EXCEPT !.summary.check_performance = times]

\* ---------------------------------------------------------- introspection
\* get_check_documentation(): no descriptor of the catalog has a 'config' or a
\* 'dependencies' entry
get_check_documentation(registry) ==
    [c \in DOMAIN registry |->
        [description |-> registry[c].description,
         category |-> registry[c].category,
         severity |-> SeverityOf(registry[c]),
         configurable |-> IF "config" \in DOMAIN registry[c]
                          THEN registry[c].config # <<>> ELSE FALSE,
         dependencies |-> IF "dependencies" \in DOMAIN registry[c]
                          THEN registry[c].dependencies ELSE <<>>]]

\* ------------------------------------------------ clean_data_file endpoint
\* results.items() of the dict process_data returned: its two entries, in
\* insertion order
ReportItems(report) == << Item("summary", report.summary),
                          Item("detailed_results", report.detailed_results) >>

\* the saving loop "for check_name, check_result in results.items()": the rows
\* it has added to the session, or the exception that ended it. table holds the
\* names of the CleaningCheck rows.
RECURSIVE SaveResults(_, _, _, _)
SaveResults(items, registry, table, session) ==
    IF items = <<>>
    THEN [raised |-> FALSE, error |-> "", table |-> table, session |-> session]
    ELSE LET check_name == Head(items).key
             check_result == Head(items).value
         IN  IF check_name \notin table /\ check_name \notin DOMAIN registry
             THEN [raised |-> TRUE, error |-> "'" \o check_name \o "'",
                   table |-> table, session |-> session]
             ELSE IF "status" \notin DOMAIN check_result
             THEN [raised |-> TRUE, error |-> "'status'",
                   table |-> table \cup {check_name}, session |-> session]
             ELSE IF "issues_found" \notin DOMAIN check_result
             THEN [raised |-> TRUE, error |-> "'issues_found'",
                   table |-> table \cup {check_name}, session |-> session]
             ELSE SaveResults(Tail(items), registry, table \cup {check_name},
                              Append(session, [check |-> check_name,
                                               status |-> check_result.status,
                                               issues_found |-> check_result.issues_found]))

\* ------------------------------------------- process_data as one thread's pass
\* the results dict of a pass whose checks have all run and been collected; the
\* clock is coarse, a check lasts less than one unit
PassResults(data, config, registry, now) ==
    [c \in DOMAIN registry |->
        CollectInto(<<>>, c,
                    _run_check(c, registry[c],
                               CallFunction(registry[c].function, data, config, now), 0))[c]]

\* self.check_times after the checks named in order have run
RECURSIVE PassTimes(_, _, _, _, _, _)
PassTimes(times, order, data, config, registry, now) ==
    IF order = <<>> THEN times
    ELSE PassTimes(RecordTime(times, Head(order),
                              CallFunction(registry[Head(order)].function, data, config, now),
                              0),
                   Tail(order), data, config, registry, now)

\* ------------------------------------------------------------------- state
VARIABLES
    data,                  \* the DataFrame handed to process_data
    config,                \* self.config
    checks,                \* self.checks
    check_times,           \* self.check_times
    total_execution_time,  \* self.total_execution_time
    now,                   \* datetime.now()
    pc,                    \* where the thread calling process_data is
    calls,                 \* process_data calls started so far
    start_time,            \* process_data's start_time
    futures,               \* future_to_check: check name -> state of its future
    queue,                 \* the executor's work queue
    threads,               \* worker threads the executor has started
    running,               \* checks inside _run_check -> their start_time
    collected,             \* futures the collecting loop has passed
    results,               \* process_data's results dict
    invocations,           \* per check, calls of its function during this process_data call
    outcome,               \* how the latest finished process_data call ended
    history,               \* the finished process_data calls, oldest first
    direct,                \* the latest direct call of a check function, as the tests make them
    docs,                  \* what the latest get_check_documentation call returned
    db,                    \* the database session of clean_data_file and the stored rows
    response,              \* the answer of clean_data_file
    passes                 \* per calling thread, its process_data call on the shared engine

vars == << data, config, checks, check_times, total_execution_time, now, pc, calls,
           start_time, futures, queue, threads, running, collected, results,
           invocations, outcome, history, direct, docs, db, response, passes >>

engine == << config, checks >>
pool == << futures, queue, threads, running >>
request == << db, response >>
caller == << direct, docs, request, passes >>

\* the threads that call process_data on one engine at the same time
Callers == 1..MaxCalls

Empty == [c \in {} |-> 0]

Replaced == { c \in DOMAIN checks : checks[c].function = "failing_check" }

\* CleaningEngine(config) for a configuration out of configs
Constructed(configs) ==
    /\ config \in configs
    /\ checks = _initialize_checks
    /\ check_times = Empty
    /\ total_execution_time = 0
    /\ now = 1
    /\ pc = "idle"
    /\ calls = 0
    /\ start_time = 0
    /\ futures = Empty
    /\ queue = <<>>
    /\ threads = 0
    /\ running = Empty
    /\ collected = 0
    /\ results = Empty
    /\ invocations = [c \in Registered |-> 0]
    /\ outcome = [kind |-> "none", error |-> "", report |-> <<>>]
    /\ history = <<>>
    /\ direct = <<>>
    /\ docs = <<>>
    /\ db = [checks |-> {}, session |-> <<>>, stored |-> <<>>]
    /\ response = <<>>
    /\ passes = [t \in Callers |->
                   [pc |-> "idle", start_time |-> 0, results |-> Empty, duration |-> 0,
                    outcome |-> [kind |-> "none", error |-> "", report |-> <<>>]]]

\* a constructed engine and the DataFrame later handed to process_data
Init ==
    /\ data \in DataFrames
    /\ Constructed(Configs)

\* time passes; the clock is coarse, a process_data call lasts less than one unit
Tick ==
    /\ pc = "idle"
    /\ now < MaxClock
    /\ now' = now + 1
    /\ UNCHANGED << caller, data, engine, check_times, total_execution_time, pc, calls, start_time,
                    pool, collected, results, invocations, outcome, history >>

\* a caller swaps a registered function for one that raises, as test_error_handling does
ReplaceFunction(c) ==
    /\ pc = "idle"
    /\ calls < MaxCalls
    /\ checks[c].function # "failing_check"
    /\ checks' = [checks EXCEPT ![c].function = "failing_check"]
    /\ UNCHANGED << caller, data, config, check_times, total_execution_time, now, pc, calls,
                    start_time, pool, collected, results, invocations, outcome, history >>

\* process_data up to the creation of the executor
ProcessStart ==
    /\ pc = "idle"
    /\ calls < MaxCalls
    /\ pc' = "submit"
    /\ calls' = calls + 1
    /\ start_time' = now
    /\ results' = Empty
    /\ futures' = Empty
    /\ queue' = <<>>
    /\ threads' = 0
    /\ running' = Empty
    /\ collected' = 0
    /\ invocations' = [c \in Registered |-> 0]
    /\ UNCHANGED << caller, data, engine, check_times, total_execution_time, now, outcome, history >>

\* executor.submit(self._run_check, check_name, check_info, data) for the next check
Submit ==
    /\ pc = "submit"
    /\ LET c == CheckOrder[Cardinality(DOMAIN futures) + 1]
       IN  /\ futures' = [d \in DOMAIN futures \cup {c} |->
                            IF d = c THEN [state |-> "pending", exception |-> <<>>, result |-> <<>>]
                            ELSE futures[d]]
           /\ queue' = Append(queue, c)
           /\ threads' = AdjustThreadCount(threads)
           /\ pc' = IF Cardinality(DOMAIN futures) + 1 = NumChecks THEN "collect" ELSE "submit"
    /\ UNCHANGED << caller, data, engine, check_times, total_execution_time, now, calls, start_time,
                    running, collected, results, invocations, outcome, history >>

\* an idle worker thread takes the oldest work item and enters _run_check
WorkerStart ==
    /\ queue # <<>>
    /\ Cardinality(DOMAIN running) < threads
    /\ LET c == Head(queue)
       IN  /\ queue' = Tail(queue)
           /\ running' = [d \in DOMAIN running \cup {c} |-> IF d = c THEN now ELSE running[d]]
           /\ futures' = [futures EXCEPT ![c].state = "running"]
    /\ UNCHANGED << caller, data, engine, check_times, total_execution_time, now, pc, calls,
                    start_time, threads, collected, results, invocations, outcome, history >>

\* a runner whose check functions fill the nulls of the shared DataFrame in place
WorkerFinish_InPlace(c) ==
    /\ c \in DOMAIN running
    /\ LET raw == CallFunction(checks[c].function, data, config, now)
           execution_time == now - running[c]
       IN  /\ futures' = [futures EXCEPT ![c] = _run_check(c, checks[c], raw, execution_time)]
           /\ check_times' = RecordTime(check_times, c, raw, execution_time)
           /\ invocations' = [invocations EXCEPT ![c] = @ + Attempts(raw)]
    /\ running' = [d \in DOMAIN running \ {c} |-> running[d]]
    /\ data' = [data EXCEPT !.rows =
                   [i \in DOMAIN data.rows |->
                      [col \in DOMAIN data.rows[i] |->
                         IF IsNull(data.rows[i][col]) THEN <<0>> ELSE data.rows[i][col]]]]
    /\ UNCHANGED << caller, engine, total_execution_time, now, pc, calls, start_time,
                    queue, threads, collected, results, outcome, history >>

\* the check function of a running check returns or raises, and _run_check ends
WorkerFinish(c) ==
    /\ c \in DOMAIN running
    /\ LET raw == CallFunction(checks[c].function, data, config, now)
           execution_time == now - running[c]
       IN  /\ futures' = [futures EXCEPT ![c] = _run_check(c, checks[c], raw, execution_time)]
           /\ check_times' = RecordTime(check_times, c, raw, execution_time)
           /\ invocations' = [invocations EXCEPT ![c] = @ + Attempts(raw)]
    /\ running' = [d \in DOMAIN running \ {c} |-> running[d]]
    /\ UNCHANGED << caller, data, engine, total_execution_time, now, pc, calls, start_time,
                    queue, threads, collected, results, outcome, history >>

\* one round of "for future in future_to_check": future.result() has returned or raised
Collect ==
    /\ pc = "collect"
    /\ LET c == CheckOrder[collected + 1]
       IN  /\ ResultReady(futures[c])
           /\ results' = CollectInto(results, c, futures[c])
           /\ pc' = LoopExit(collected + 1, futures[c])
    /\ collected' = collected + 1
    /\ UNCHANGED << caller, data, engine, check_times, total_execution_time, now, calls, start_time,
                    pool, invocations, outcome, history >>

\* the with block ends (shutdown waits for the workers), the total time is stored
\* and _generate_summary_report returns the report or raises
Finish ==
    /\ pc = "report"
    /\ queue = <<>>
    /\ running = Empty
    /\ total_execution_time' = now - start_time
    /\ outcome' = _generate_summary_report(results, check_times, now - start_time)
    /\ history' = Append(history, [start_time |-> start_time, replaced |-> Replaced,
                                   results |-> results, outcome |-> outcome'])
    /\ pc' = "idle"
    /\ UNCHANGED << caller, data, engine, check_times, now, calls, start_time, pool, collected,
                    results, invocations >>

\* engine._check_x(data): a caller invokes a check function of the engine directly
DirectCall(c) ==
    /\ pc = "idle"
    /\ direct' = << [check |-> c,
                     raw |-> CallFunction(Catalog[c].function, data, config, now)] >>
    /\ UNCHANGED << docs, request, passes, data, engine, check_times, total_execution_time, now,
                    pc, calls, start_time, pool, collected, results, invocations, outcome,
                    history >>

\* a test appends a copy of row i to its DataFrame before it calls the check:
\* pd.concat([data, data.iloc[i:i+1]]), which keeps the label of the copied row,
\* or the same with ignore_index=True, which numbers the rows anew
AppendCopy(i, ignore_index) ==
    /\ pc = "idle"
    /\ direct = <<>>
    /\ IsDataFrame(data)
    /\ i \in DOMAIN data.rows
    /\ Len(data.rows) <= MaxRows
    /\ data' = IF ignore_index
               THEN [columns |-> data.columns, rows |-> Append(data.rows, data.rows[i])]
               ELSE [columns |-> data.columns, rows |-> Append(data.rows, data.rows[i]),
                     index |-> Append(IndexOf(data), IndexOf(data)[i])]
    /\ UNCHANGED << caller, engine, check_times, total_execution_time, now, pc, calls,
                    start_time, pool, collected, results, invocations, outcome, history >>

\* clean_data_file for an existing data file, up to the process_data call: the
\* engine is constructed for the request and the file is read into a DataFrame
CleanRequest ==
    /\ calls = 0
    /\ response = <<>>
    /\ ProcessStart

\* clean_data_file after process_data has ended: the saving loop and the commit,
\* or the except branch with the rollback and the HTTP 500 answer
CleanRespond ==
    /\ pc = "idle"
    /\ calls > 0
    /\ response = <<>>
    /\ LET saved == IF outcome.kind = "raised"
                    THEN [raised |-> TRUE, error |-> outcome.error,
                          table |-> db.checks, session |-> db.session]
                    ELSE SaveResults(ReportItems(outcome.report[1]), checks,
                                     db.checks, db.session)
       IN  IF saved.raised
           THEN /\ db' = [db EXCEPT !.session = <<>>]
                /\ response' = << [status_code |-> 500, detail |-> saved.error] >>
           ELSE /\ db' = [checks |-> saved.table, session |-> <<>>,
                          stored |-> db.stored \o saved.session]
                /\ response' = << [status_code |-> 200, status |-> "success",
                                   results |-> outcome.report[1]] >>
    /\ UNCHANGED << direct, docs, passes, data, engine, check_times, total_execution_time, now,
                    pc, calls, start_time, pool, collected, results, invocations, outcome,
                    history >>

\* thread t enters process_data: start_time = datetime.now()
PassStart(t) ==
    /\ passes[t].pc = "idle"
    /\ passes' = [passes EXCEPT ![t].pc = "checks", ![t].start_time = now]
    /\ UNCHANGED << direct, docs, request, data, engine, check_times, total_execution_time,
                    now, pc, calls, start_time, pool, collected, results, invocations,
                    outcome, history >>

\* the with block of thread t: its checks run, write self.check_times and are
\* collected into its results dict
PassChecks(t) ==
    /\ passes[t].pc = "checks"
    /\ passes' = [passes EXCEPT ![t].pc = "total",
                                ![t].results = PassResults(data, config, checks, now)]
    /\ check_times' = PassTimes(check_times, SubSeq(CheckOrder, 1, NumChecks),
                                data, config, checks, now)
    /\ UNCHANGED << direct, docs, request, data, engine, total_execution_time, now, pc, calls,
                    start_time, pool, collected, results, invocations, outcome, history >>

\* thread t stores the duration of its pass in self.total_execution_time
PassTotal(t) ==
    /\ passes[t].pc = "total"
    /\ total_execution_time' = now - passes[t].start_time
    /\ passes' = [passes EXCEPT ![t].pc = "report",
                                ![t].duration = now - passes[t].start_time]
    /\ UNCHANGED << direct, docs, request, data, engine, check_times, now, pc, calls,
                    start_time, pool, collected, results, invocations, outcome, history >>

\* thread t returns self._generate_summary_report(results), which reads
\* self.total_execution_time and self.check_times
PassReport(t) ==
    /\ passes[t].pc = "report"
    /\ passes' = [passes EXCEPT ![t].pc = "returned",
                                ![t].outcome = _generate_summary_report(passes[t].results,
                                                                        check_times,
                                                                        total_execution_time)]
    /\ UNCHANGED << direct, docs, request, data, engine, check_times, total_execution_time,
                    now, pc, calls, start_time, pool, collected, results, invocations,
                    outcome, history >>

\* the caller of a finished process_data call takes another dataset for its
\* next call on the engine
NewDataset(d) ==
    /\ pc = "idle"
    /\ calls > 0
    /\ calls < MaxCalls
    /\ d # data
    /\ data' = d
    /\ UNCHANGED << caller, engine, check_times, total_execution_time, now, pc, calls,
                    start_time, pool, collected, results, invocations, outcome, history >>

\* engine.get_check_documentation()
GetCheckDocumentation ==
    /\ docs' = << get_check_documentation(checks) >>
    /\ UNCHANGED << direct, request, passes, data, engine, check_times, total_execution_time,
                    now, pc, calls, start_time, pool, collected, results, invocations, outcome,
                    history >>

Next ==
    \/ Tick
    \/ \E c \in Replaceable : ReplaceFunction(c)
    \/ ProcessStart
    \/ Submit
    \/ WorkerStart
    \/ \E c \in Registered : WorkerFinish(c)
    \/ Collect
    \/ Finish

Spec == Init /\ [][Next]_vars

\* the inputs of the termination check: one DataFrame with a row of a null number
\* and a date, under the default and the all-None configuration (whether a call
\* ends does not depend on the values the checks read)
FairInit ==
    /\ Init
    /\ data = [columns |-> <<"numeric_col", "date_col">>,
               rows |-> << [numeric_col |-> <<>>, date_col |-> <<2>>] >>]
    /\ config \in { DefaultConfig, NullConfig }

\* the scheduler runs every thread that can take a step, and check functions terminate
FairSpec ==
    /\ FairInit
    /\ [][Next]_vars
    /\ WF_vars(Submit)
    /\ WF_vars(WorkerStart)
    /\ \A c \in Registered : WF_vars(WorkerFinish(c))
    /\ WF_vars(Collect)
    /\ WF_vars(Finish)

\* a constructed engine and an argument of process_data that is no dataset
ArgInit ==
    /\ data \in Unusable
    /\ Constructed(Configs)

ArgSpec == ArgInit /\ [][Next]_vars

\* a DataFrame and an engine constructed with a malformed rule
MalformedInit ==
    /\ data \in DataFrames
    /\ Constructed(MalformedConfigs)

MalformedSpec == MalformedInit /\ [][Next]_vars

\* direct calls of the check functions on every DataFrame and configuration
CheckNext ==
    \/ Tick
    \/ \E c \in DOMAIN Catalog : DirectCall(c)

CheckSpec == Init /\ [][CheckNext]_vars

\* the checks that look at the rows of the DataFrame one beside the other
RowChecks == { "duplicates", "completeness", "straightliners" }

\* a constructed engine and a DataFrame of several rows
RowInit ==
    /\ data \in RowFrames
    /\ Constructed(Configs)

\* the tests of those checks: build the DataFrame, then call the check function
RowNext ==
    \/ \E i \in 1..(MaxRows + 1), ignore_index \in BOOLEAN : AppendCopy(i, ignore_index)
    \/ \E c \in RowChecks : DirectCall(c)

RowSpec == RowInit /\ [][RowNext]_vars

\* one clean_data_file request: the engine of the request, and the steps of its
\* process_data call
EndpointNext ==
    \/ CleanRequest
    \/ Submit
    \/ WorkerStart
    \/ \E c \in Registered : WorkerFinish(c)
    \/ Collect
    \/ Finish
    \/ CleanRespond

EndpointSpec == Init /\ [][EndpointNext]_vars

\* an engine shared by threads, and the argument they all pass to process_data:
\* no dataset, so that every check fails, or a DataFrame
ConcurrentInit ==
    /\ data \in Unusable \cup { [columns |-> <<"numeric_col", "date_col">>,
                                  rows |-> << [numeric_col |-> <<>>, date_col |-> <<2>>] >>] }
    /\ Constructed({ SeriesConfig, NullConfig })

\* the threads run their process_data calls in any interleaving while time passes
ConcurrentNext ==
    \/ Tick
    \/ \E t \in Callers : PassStart(t)
    \/ \E t \in Callers : PassChecks(t)
    \/ \E t \in Callers : PassTotal(t)
    \/ \E t \in Callers : PassReport(t)

ConcurrentSpec == ConcurrentInit /\ [][ConcurrentNext]_vars

\* the datasets of a later call: an empty DataFrame and one with a row
OtherDatasets == { [columns |-> <<>>, rows |-> <<>>],
                   [columns |-> <<"numeric_col", "date_col">>,
                    rows |-> << [numeric_col |-> <<>>, date_col |-> <<2>>] >>] }

\* an engine whose first process_data call is given no dataset, so that every
\* check fails and the call returns a Report
RepeatInit ==
    /\ data \in Unusable
    /\ Constructed({ SeriesConfig, NullConfig })

\* process_data calls one after the other on the same engine, with the same or
\* another dataset
RepeatNext ==
    \/ Next
    \/ \E d \in OtherDatasets : NewDataset(d)

RepeatSpec == RepeatInit /\ [][RepeatNext]_vars

\* the engine's operations on one DataFrame under every configuration
ApiInit ==
    /\ Init
    /\ data = [columns |-> <<"numeric_col", "date_col">>,
               rows |-> << [numeric_col |-> <<>>, date_col |-> <<2>>] >>]

ApiNext ==
    \/ Next
    \/ GetCheckDocumentation

ApiSpec == ApiInit /\ [][ApiNext]_vars

TypeOK ==
    /\ pc \in { "idle", "submit", "collect", "report" }
    /\ DOMAIN running \subseteq DOMAIN futures
    /\ DOMAIN results \subseteq DOMAIN futures

\* ================================================================= claims

\* C1: a process_data call on a DataFrame always ends by returning a Report,
\* never by raising, whether the checks completed or failed.
C1_ReturnsReport ==
    (pc = "idle" /\ calls > 0) => outcome.kind = "report"

\* C2: coverage: the call returns a Report whose detailed_results has exactly the
\* registered check ids as keys.
C2_Coverage ==
    (pc = "idle" /\ calls > 0) =>
        /\ outcome.kind = "report"
        /\ DOMAIN outcome.report[1].detailed_results = Registered

\* C3: isolation: of two process_data runs on the same data, configuration and
\* clock reading, every check whose function is its own in both runs has the same
\* status and the same issues_found, whichever other functions were replaced by
\* one that raises.
C3_Isolation ==
    \A i \in DOMAIN history : \A j \in DOMAIN history :
        history[i].start_time = history[j].start_time =>
            \A c \in Registered \ (history[i].replaced \cup history[j].replaced) :
                /\ history[i].results[c].fields.status = history[j].results[c].fields.status
                /\ history[i].results[c].fields.issues_found
                       = history[j].results[c].fields.issues_found

\* C3 witness: a run without replacement and a run with missing_values replaced,
\* at the same clock reading, in which another check completed with an issue.
C3_Witness ==
    /\ Len(history) = 2
    /\ history[1].start_time = history[2].start_time
    /\ history[1].replaced = {}
    /\ history[2].replaced = { "missing_values" }
    /\ history[2].results["missing_values"].fields.status = "failed"
    /\ \E c \in Registered \ { "missing_values" } :
           /\ history[2].results[c].fields.status = "completed"
           /\ history[2].results[c].fields.issues_found > 0

\* C4: Scenario D: after a run in which missing_values was replaced by a function
\* that raises, the Report marks missing_values failed, counts at least one failed
\* check and reports every other registered check completed.
C4_ScenarioD ==
    (pc = "idle" /\ calls > 0 /\ history[Len(history)].replaced = { "missing_values" }) =>
        /\ outcome.kind = "report"
        /\ outcome.report[1].detailed_results["missing_values"].fields.status = "failed"
        /\ outcome.report[1].summary.failed_checks >= 1
        /\ \A c \in Registered \ { "missing_values" } :
               outcome.report[1].detailed_results[c].fields.status = "completed"

C6_AtMostFourRunning ==
    /\ Cardinality(DOMAIN running) <= 4
    /\ \A c \in DOMAIN futures :
           /\ futures[c].state = "running" <=> c \in DOMAIN running
           /\ futures[c].state = "pending" <=> c \in Range(queue)

\* C6 witness: four checks are executing while another one waits.
C6_Witness ==
    /\ Cardinality(DOMAIN running) = 4
    /\ queue # <<>>

\* C7: the collecting loop is left, and process_data ends, only when every
\* registered check has finished, also when a check failed early; and a started
\* process_data call ends, given that every check function terminates.
C7_NoFailFast ==
    /\ []((pc = "report" \/ (pc = "idle" /\ calls > 0)) =>
             \A c \in Registered : c \in DOMAIN futures /\ futures[c].state = "finished")
    /\ [](pc = "submit" => <>(pc = "idle"))

\* C7 witness: the first submitted check has failed while others are still queued
\* or executing.
C7_Witness ==
    /\ pc \in { "submit", "collect" }
    /\ CheckOrder[1] \in DOMAIN futures
    /\ futures[CheckOrder[1]].exception # <<>>
    /\ queue # <<>>
    /\ running # Empty

\* C8: during one process_data call no check function is called more than once,
\* and when the collecting loop is over each one has been called exactly once,
\* the ones that raised included.
C8_ExactlyOnce ==
    /\ \A c \in Registered : invocations[c] <= 1
    /\ (pc = "report" \/ (pc = "idle" /\ calls > 0)) =>
           \A c \in Registered : invocations[c] = 1

\* C8 witness: a call has ended in which a check raised.
C8_Witness ==
    /\ pc = "idle"
    /\ calls > 0
    /\ \E c \in Registered : futures[c].exception # <<>> /\ invocations[c] = 1

\* C9: every run returns a Report whose severity_distribution counts sum to the
\* number of registered checks.
C9_HistogramSums ==
    (pc = "idle" /\ calls > 0) =>
        /\ outcome.kind = "report"
        /\ SumOver(outcome.report[1].summary.severity_distribution, CheckSeverity)
               = Cardinality(Registered)

\* C10: a check whose function raised is reported with issues_found 0 and severity
\* critical and is counted in the critical bucket of the severity histogram.
C10_FailedCountedCritical ==
    (pc = "idle" /\ calls > 0) =>
        LET raised == { c \in Registered : futures[c].exception # <<>> }
        IN  raised # {} =>
                /\ outcome.kind = "report"
                /\ \A c \in raised :
                       /\ outcome.report[1].detailed_results[c].fields.issues_found = 0
                       /\ outcome.report[1].detailed_results[c].fields.severity = "critical"
                /\ outcome.report[1].summary.severity_distribution["critical"]
                       >= Cardinality(raised)

C13_TimingForAll ==
    (pc = "idle" /\ calls > 0) => DOMAIN check_times = Registered

\* C14: after any sequence of process_data calls check_times holds exactly the
\* timings measured during the most recent call: every entry belongs to a check
\* that completed in that call, none is left from an earlier one.
C14_MostRecentOnly ==
    (pc = "idle" /\ calls > 0) =>
        \A c \in DOMAIN check_times :
            /\ results[c].fields.status = "completed"
            /\ check_times[c] = results[c].fields.execution_time

\* C15: a process_data call whose argument is no dataset invokes no check
\* function at all and ends by raising a top-level error, without a Report.
C15_DatasetError ==
    /\ \A c \in Registered : invocations[c] = 0
    /\ (pc = "idle" /\ calls > 0) => outcome.kind = "raised"

C18_Documentation ==
    \A i \in DOMAIN docs :
        /\ DOMAIN docs[i] = DOMAIN checks
        /\ \A c \in DOMAIN docs[i] : docs[i][c].configurable = (c \in DOMAIN ConfigKey)

\* C19: no step of process_data or get_check_documentation changes the DataFrame,
\* the engine configuration or the check registry; the registry changes only
\* when a caller assigns to engine.checks itself.
C19_InputsUnchanged ==
    [][ /\ data' = data
        /\ config' = config
        /\ checks' # checks => \E c \in Replaceable : ReplaceFunction(c) ]_vars

\* C19 witness: a process_data call on a DataFrame with a null has ended and
\* get_check_documentation has been called on the engine as constructed.
C19_Witness ==
    /\ pc = "idle"
    /\ calls > 0
    /\ docs # <<>>
    /\ checks = _initialize_checks
    /\ \E i \in DOMAIN data.rows : IsNull(data.rows[i]["numeric_col"])

\* C20 as claimed: a malformed rule is surfaced to the caller and never absorbed
\* into the result map as a failed check.
C20_MalformedRuleSurfaced ==
    \A c \in DOMAIN results :
        results[c].fields.status = "failed" =>
            results[c].fields.error \notin { "'fields'", "'condition'", "'name'" }

\* C20 as amended: construction accepts a malformed rule; the check that
\* evaluates it fails with the KeyError of the missing entry when the evaluation
\* reads that entry (fields: always; condition: when the rule's fields are all
\* columns; name: when also a row violates the condition) and is then an
\* ordinary failed entry of the result map, and completes without issues
\* otherwise; the KeyError is never raised out of process_data.
C20_MalformedRuleAbsorbed ==
    /\ "consistency" \in DOMAIN results =>
           LET rule == config.consistency_rules.value[1]
               e == results["consistency"].fields
               missing == CHOOSE k \in { "fields", "condition", "name" } : k \notin DOMAIN rule
               applicable == \A f \in Range(rule.fields) : f \in Range(data.columns)
               violated == \E i \in DOMAIN data.rows :
                              ~RulePredicate(rule.condition.pred, data.rows[i])
               read == CASE missing = "fields" -> TRUE
                         [] missing = "condition" -> applicable
                         [] missing = "name" -> applicable /\ violated
           IN  IF read
               THEN /\ results["consistency"].type = "dict"
                    /\ e.status = "failed"
                    /\ e.error = "'" \o missing \o "'"
                    /\ e.issues_found = 0
                    /\ e.severity = "critical"
               ELSE /\ e.status = "completed"
                    /\ e.issues_found = 0
    /\ outcome.error \notin { "'fields'", "'condition'", "'name'" }

\* C20 witness: the collecting loop is over, and the consistency check failed on
\* a rule without a name.
C20_Witness ==
    /\ pc = "report"
    /\ "name" \notin DOMAIN config.consistency_rules.value[1]
    /\ results["consistency"].fields.status = "failed"

\* C21: no numeric field of the result map that process_data reports as
\* detailed_results is NaN: a percentage a check computed on a dataset without
\* rows has been replaced by null when the collecting loop has stored the result.
C21_FiniteFields ==
    \A c \in DOMAIN results :
        results[c].type = "CheckResult" =>
            LET details == results[c].fields.details
            IN  /\ "max_missing_percentage" \in DOMAIN details.summary =>
                       ~details.summary.max_missing_percentage.nan
                /\ \A i \in DOMAIN details.issues :
                       /\ "missing_percentage" \in DOMAIN details.issues[i] =>
                              ~details.issues[i].missing_percentage.nan
                       /\ "completeness_percentage" \in DOMAIN details.issues[i] =>
                              ~details.issues[i].completeness_percentage.nan

\* C22: a rule check (consistency, logical_consistency, cross_validation) called
\* with configured rules returns without raising, whether the conditions are
\* boolean Series or predicate functions, and its issues are, in rule order, one
\* issue for every rule whose fields are all columns and whose condition is
\* false for some row, named after the rule and listing exactly those rows; a
\* rule with a field that is no column adds no issue.
C22_RuleChecks ==
    \A i \in DOMAIN direct :
        LET c == direct[i].check
            raw == direct[i].raw
        IN  (c \in { "consistency", "logical_consistency", "cross_validation" }
                /\ config[ConfigKey[c]].state = "set") =>
                LET rules == config[ConfigKey[c]].value
                    violating(r) == { k \in DOMAIN data.rows :
                                        ~RulePredicate(r.condition.pred, data.rows[k]) }
                    flagged == SelectSeq(rules,
                                   LAMBDA r : /\ \A f \in Range(r.fields) : f \in Range(data.columns)
                                              /\ violating(r) # {})
                IN  /\ ~raw.raised
                    /\ raw.issues = [k \in DOMAIN flagged |->
                                       [rule |-> flagged[k].name,
                                        violation_count |-> Cardinality(violating(flagged[k])),
                                        violation_indices |-> IndexList(violating(flagged[k]))]]

C24_Completeness ==
    \A i \in DOMAIN direct :
        (direct[i].check = "completeness" /\ config.required_fields.state # "none") =>
            LET raw == direct[i].raw
                N == Len(data.rows)
                incomplete == { f \in Range(config.required_fields.value) :
                                  f \in Range(data.columns) /\ NullCount(data, f) > 0 }
            IN  /\ ~raw.raised
                /\ Len(raw.issues) = Cardinality(incomplete)
                /\ { raw.issues[m].field : m \in DOMAIN raw.issues } = incomplete
                /\ \A m \in DOMAIN raw.issues :
                       LET issue == raw.issues[m]
                           k == NullCount(data, issue.field)
                       IN  /\ issue.missing_count = k
                           /\ ~issue.completeness_percentage.nan
                           /\ issue.completeness_percentage.num * N
                                  = (N - k) * 100 * issue.completeness_percentage.den

\* C24 witness (Scenario C): the check was called with a required field that has
\* one null among two rows and returned one issue with missing_count 1 and a
\* completeness of 50 percent.
C24_Witness ==
    /\ direct # <<>>
    /\ direct[1].check = "completeness"
    /\ config.required_fields.state = "set"
    /\ Len(data.rows) = 2
    /\ NullCount(data, "numeric_col") = 1
    /\ Len(direct[1].raw.issues) = 1
    /\ direct[1].raw.issues[1].missing_count = 1
    /\ direct[1].raw.issues[1].completeness_percentage.num
           = 50 * direct[1].raw.issues[1].completeness_percentage.den

C26_ValueDistribution ==
    ("value_distribution" \in DOMAIN results /\ SelectDtypes(data, "number") # <<>>
        /\ checks["value_distribution"].function = "_check_value_distribution") =>
        /\ futures["value_distribution"].exception = <<>>
        /\ results["value_distribution"].fields.status = "completed"
        /\ Len(data.rows) <= 1 => results["value_distribution"].fields.issues_found = 0

\* C27: a clean_data_file request for an existing, readable data file leaves no
\* row stored and none pending in the session when it is answered with an error;
\* and it is answered with status 'success' after exactly one CleaningResult row
\* per registered check has been stored, each with that check's status and
\* issues_found.
C27_CleanDataFile ==
    \A i \in DOMAIN response :
        /\ response[i].status_code # 200 => db.stored = <<>> /\ db.session = <<>>
        /\ response[i].status_code = 200
        /\ response[i].status = "success"
        /\ Len(db.stored) = Cardinality(Registered)
        /\ \A c \in Registered :
               \E k \in DOMAIN db.stored :
                   /\ db.stored[k].check = c
                   /\ db.stored[k].status = results[c].fields.status
                   /\ db.stored[k].issues_found = results[c].fields.issues_found

\* C28: when threads call process_data on one engine at the same time, the
\* execution_time in the summary of every returned Report is the duration of
\* the pass that returned it, under every interleaving.
C28_OwnExecutionTime ==
    \A t \in Callers :
        (passes[t].pc = "returned" /\ passes[t].outcome.kind = "report") =>
            passes[t].outcome.report[1].summary.execution_time = passes[t].duration

\* C29: a Report that a process_data call has returned reads, at any later time
\* and whatever further calls were made on the engine, exactly as it read when
\* it was returned, its summary.check_performance included.
C29_ReportUnchanged ==
    \A i \in DOMAIN history :
        history[i].outcome.kind = "report" =>
            Held(history[i].outcome.report[1], check_times) = history[i].outcome.report[1]

\* C30: a configuration-driven check whose configuration key is present with the
\* value None, as in the configuration the /process endpoint builds from a
\* CleaningConfig without that field, returns without raising and without
\* issues on every DataFrame, so that _run_check reports it completed with zero
\* issues.
C30_NoneValueNoOp ==
    \A i \in DOMAIN direct :
        LET c == direct[i].check
            raw == direct[i].raw
        IN  (c \in DOMAIN ConfigKey /\ config[ConfigKey[c]].state = "none") =>
                /\ ~raw.raised
                /\ raw.issues = <<>>
                /\ _run_check(c, Catalog[c], raw, 0).exception = <<>>
                /\ _run_check(c, Catalog[c], raw, 0).result[1].fields.status = "completed"
                /\ _run_check(c, Catalog[c], raw, 0).result[1].fields.issues_found = 0

====
